---- MODULE Spec2Model ----
(***************************************************************************)
(* Incremental lexical analyzer (lib/mylang/Lexer.js with unicode.js).     *)
(* The lexer object's fields are the variables; appendSource is one action *)
(* and a call of next() is a sequence of steps: the call, one step per     *)
(* examined character, one per exhausted chunk, and the final return.      *)
(***************************************************************************)
EXTENDS Integers, Sequences, FiniteSets, TLC

\* ------------------------------------------------------------------ bounds
\* Total number of characters appended in one session.
MaxInput == 3

\* --------------------------------------------------------- unicode.js
LINE_FEED == 10
APOSTROPHE == 39
PLUS_SIGN == 43
UC_FULL_STOP == 46
DIGIT_ZERO == 48
CAPITAL_LETTER_E == 69
REVERSE_SOLIDUS == 92
SMALL_LETTER_E == 101
SMALL_LETTER_X == 120

\* charCodeAt() past the end of a chunk
NaN == -1

is_space(c) ==
    \/ c = 9
    \/ c = 32
    \/ c = 160
    \/ c = 6158
    \/ (c > 8191 /\ c < 8204)
    \/ c = 8239
    \/ c = 8287
    \/ c = 12288
    \/ c = 65279

is_linebreak(c) ==
    \/ (c > 9 /\ c < 14)
    \/ c = 133
    \/ c = 8232
    \/ c = 8233

is_whitespace(c) == is_space(c) \/ is_linebreak(c)

is_decdigit(c) == c > 47 /\ c < 58

is_hexdigit(c) ==
    \/ (c > 47 /\ c < 58)
    \/ (c > 64 /\ c < 71)
    \/ (c > 96 /\ c < 103)

\* --------------------------------------------------------- token types
\* deftok() numbers the token types in definition order.
LINE == 0
LEFT_PAREN == 1
RIGHT_PAREN == 2
LEFT_SQUARE_BRACKET == 3
RIGHT_SQUARE_BRACKET == 4
LEFT_CURLY_BRACKET == 5
RIGHT_CURLY_BRACKET == 6
FULL_STOP == 7
COLON == 8
DECIMAL_NUMBER == 9
HEX_NUMBER == 10
FRACTIONAL_NUMBER == 11
SYMBOL == 12
TEXT == 13

\* Codepoint -> token type, for the single-character tokens: ( ) [ ] { } . :
SINGLE_TOKENS ==
    (40 :> LEFT_PAREN) @@ (41 :> RIGHT_PAREN) @@
    (91 :> LEFT_SQUARE_BRACKET) @@ (93 :> RIGHT_SQUARE_BRACKET) @@
    (123 :> LEFT_CURLY_BRACKET) @@ (125 :> RIGHT_CURLY_BRACKET) @@
    (46 :> FULL_STOP) @@ (58 :> COLON)

is_symbol_character(c) ==
    /\ c > 32
    /\ c # REVERSE_SOLIDUS
    /\ ~(c > 126 /\ c < 161)
    /\ ~is_whitespace(c)
    /\ c \notin DOMAIN SINGLE_TOKENS

\* --------------------------------------------------------- values
\* A token's value is undefined, a string (sequence of character codes) or,
\* for LINE tokens, a number.
Undefined == [kind |-> "undefined", text |-> <<>>, num |-> 0]
Str(s) == [kind |-> "string", text |-> s, num |-> 0]
Num(n) == [kind |-> "number", text |-> <<>>, num |-> n]

\* The null atom, for this.token and for the value returned by next().
null == [type |-> -1, value |-> Undefined, offset |-> 0, line |-> 0, column |-> 0]

\* chunk.charCodeAt(i), 0-based, NaN when out of bounds
charCodeAt(s, i) == IF i >= 0 /\ i < Len(s) THEN s[i + 1] ELSE NaN

\* chunk.substring(a, b), 0-based half-open range [a, b)
substring(s, a, b) == SubSeq(s, a + 1, b)

\* Errors thrown by next()
ErrUnexpectedCharacter == "Unexpected character"
ErrUnexpectedX == "Syntax error: Unexpected \"x\" in number literal"
ErrText == "Lesson 1: Implement reading of Text tokens"
ErrTokenType == "Unexpected token type"
ErrReference == "ReferenceError: DIGIT_ZERO is not defined"

\* --------------------------------------------------------- results of next()
NoResult == [kind |-> "none", token |-> null, error |-> ""]
ReturnToken(t) == [kind |-> "token", token |-> t, error |-> ""]
ReturnNull == [kind |-> "null", token |-> null, error |-> ""]
Throw(e) == [kind |-> "error", token |-> null, error |-> e]

\* One step of next(): the lexer object afterwards, and the value returned or
\* the error thrown when the step ends the call (kind "none": the loop goes on).
Continue(self) == [self |-> self, result |-> NoResult]
Finish(self, r) == [self |-> self, result |-> r]

\* --------------------------------------------------------- Lexer.prototype
\* The chunk at the head of the queue (this.source.value).
sourceValue(self) == Head(self.source)

makeToken(self, type) ==
    [type |-> type, value |-> Undefined, offset |-> self.tokenOffset,
     line |-> self.tokenLine, column |-> self.tokenColumn]

\* flushToken leaving tokenValueOffset set after the slice is taken.
flushToken_KeepOffset(self) ==
    LET token == self.token
        cleared == [self EXCEPT !.token = null]
    IN  IF token.type = LINE
        THEN [self |-> cleared,
              token |-> [token EXCEPT
                  !.value = Num(self.tokenOffset - token.offset - 1)]]
        ELSE IF self.tokenValueOffset # -1
        THEN [self |-> cleared,
              token |-> [token EXCEPT
                  !.value = Str(substring(sourceValue(self),
                                self.tokenValueOffset, self.sourceOffset))]]
        ELSE [self |-> cleared, token |-> token]

\* flushToken with the value of a LINE token not reduced by one.
flushToken_NoBreak(self) ==
    LET token == self.token
        cleared == [self EXCEPT !.token = null]
    IN  IF token.type = LINE
        THEN [self |-> cleared,
              token |-> [token EXCEPT
                  !.value = Num(self.tokenOffset - token.offset)]]
        ELSE IF self.tokenValueOffset # -1
        THEN [self |-> [cleared EXCEPT !.tokenValueOffset = -1],
              token |-> [token EXCEPT
                  !.value = Str(substring(sourceValue(self),
                                self.tokenValueOffset, self.sourceOffset))]]
        ELSE [self |-> cleared, token |-> token]

\* flushToken: the returned token and the lexer object with this.token cleared.
flushToken(self) ==
    LET token == self.token
        cleared == [self EXCEPT !.token = null]
    IN  IF token.type = LINE
        THEN [self |-> cleared,
              token |-> [token EXCEPT
                  !.value = Num(self.tokenOffset - token.offset - 1)]]
        ELSE IF self.tokenValueOffset # -1
        THEN [self |-> [cleared EXCEPT !.tokenValueOffset = -1],
              token |-> [token EXCEPT
                  !.value = Str(substring(sourceValue(self),
                                self.tokenValueOffset, self.sourceOffset))]]
        ELSE [self |-> cleared, token |-> token]

\* "Increment source counters and advance input"
incrementCounters(self) ==
    [self EXCEPT !.sourceOffset = @ + 1,
                 !.tokenOffset = @ + 1,
                 !.tokenColumn = @ + 1]

\* returnFlushed with "break" in place of "return": the counters are
\* incremented for the terminating character before the token is returned.
returnFlushed_Consume(self) ==
    LET f == flushToken(self)
    IN  Finish(incrementCounters(f.self), ReturnToken(f.token))

\* "return this.flushToken()" inside the character loop
returnFlushed(self) ==
    LET f == flushToken(self) IN Finish(f.self, ReturnToken(f.token))

\* appendIfBuffered with the append forgotten.
appendIfBuffered_Drop(self, c) == self

\* "If the token is buffered, append the character"
appendIfBuffered(self, c) ==
    IF self.tokenValueOffset = -1
    THEN [self EXCEPT !.token.value = Str(@.text \o <<c>>)]
    ELSE self

\* The test guarding the "x" of a hexadecimal prefix: "malformed", "ok", or
\* "reference" when evaluation reaches the undeclared identifier DIGIT_ZERO.
hexPrefixCheck(self) ==
    IF self.tokenValueOffset # -1
    THEN IF \/ self.tokenValueOffset # self.sourceOffset - 1
            \/ charCodeAt(sourceValue(self), self.tokenValueOffset) # DIGIT_ZERO
         THEN "malformed"
         ELSE "ok"
    ELSE IF Len(self.token.value.text) # 1
         THEN "malformed"
         ELSE "reference"

\* singleToken returning the token before the counters are incremented.
singleToken_EarlyReturn(self, c) ==
    Finish(self, ReturnToken(makeToken(self, SINGLE_TOKENS[c])))

\* singleToken giving the token its character as value.
singleToken_WithValue(self, c) ==
    Finish(incrementCounters(self),
           ReturnToken([makeToken(self, SINGLE_TOKENS[c]) EXCEPT
                            !.value = Str(<<c>>)]))

\* A single-character token: made at the current location and returned once
\* the counters have been incremented.
singleToken(self, c) ==
    Finish(incrementCounters(self),
           ReturnToken(makeToken(self, SINGLE_TOKENS[c])))

\* beginLine with the reset of the column counter forgotten.
beginLine_NoColumnReset(self) ==
    Continue(incrementCounters(
        [self EXCEPT !.token = makeToken(self, LINE),
                     !.tokenLine = @ + 1]))

\* LINE FEED: beginning of a LINE token; the line counter is incremented and
\* the column counter set to -1, to be 0 after the increment.
beginLine(self) ==
    Continue(incrementCounters(
        [self EXCEPT !.token = makeToken(self, LINE),
                     !.tokenLine = @ + 1,
                     !.tokenColumn = -1]))

\* Beginning of a text literal, number literal or symbol: the value begins at
\* the current offset into the head chunk.
beginValue(self, type) ==
    Continue(incrementCounters(
        [self EXCEPT !.token = makeToken(self, type),
                     !.tokenValueOffset = self.sourceOffset]))

\* Whitespace between tokens is ignored, except that it begins a LINE token
\* when this.sourceOffset is 0.
whitespace(self) ==
    IF self.sourceOffset = 0
    THEN Continue(incrementCounters(
            [self EXCEPT !.token = makeToken(self, LINE)]))
    ELSE Continue(incrementCounters(self))

\* unexpected skipping the character instead of throwing.
unexpected_Skip(self) == Continue(incrementCounters(self))

\* A character that can begin nothing.
unexpected(self) == Finish(self, Throw(ErrUnexpectedCharacter))

\* Branch taken when this.token === null: character c may begin a token.
startToken(self, c) ==
    IF c \in DOMAIN SINGLE_TOKENS THEN singleToken(self, c)
    ELSE IF c = LINE_FEED THEN beginLine(self)
    ELSE IF c = APOSTROPHE THEN beginValue(self, TEXT)
    ELSE IF is_decdigit(c) THEN beginValue(self, DECIMAL_NUMBER)
    ELSE IF is_symbol_character(c) THEN beginValue(self, SYMBOL)
    ELSE IF is_whitespace(c) THEN whitespace(self)
    ELSE unexpected(self)

\* Branch taken while a token is being read: switch (this.token.type).
continueToken(self, c) ==
    CASE self.token.type = SYMBOL ->
            IF is_symbol_character(c)
            THEN Continue(incrementCounters(appendIfBuffered(self, c)))
            ELSE returnFlushed(self)
      [] self.token.type = DECIMAL_NUMBER ->
            IF c = SMALL_LETTER_X
            THEN CASE hexPrefixCheck(self) = "malformed" ->
                        Finish(self, Throw(ErrUnexpectedX))
                   [] hexPrefixCheck(self) = "reference" ->
                        Finish(self, Throw(ErrReference))
                   [] OTHER ->
                        Continue(incrementCounters(appendIfBuffered(
                            [self EXCEPT !.token.type = HEX_NUMBER], c)))
            ELSE IF c = UC_FULL_STOP
            THEN Continue(incrementCounters(appendIfBuffered(
                    [self EXCEPT !.token.type = FRACTIONAL_NUMBER], c)))
            ELSE IF ~is_decdigit(c)
            THEN returnFlushed(self)
            ELSE Continue(incrementCounters(appendIfBuffered(self, c)))
      [] self.token.type = HEX_NUMBER ->
            IF is_hexdigit(c)
            THEN Continue(incrementCounters(appendIfBuffered(self, c)))
            ELSE returnFlushed(self)
      [] self.token.type = FRACTIONAL_NUMBER ->
            IF \/ c = UC_FULL_STOP
               \/ c = PLUS_SIGN
               \/ c = CAPITAL_LETTER_E
               \/ c = SMALL_LETTER_E
               \/ is_decdigit(c)
            THEN Continue(incrementCounters(appendIfBuffered(self, c)))
            ELSE returnFlushed(self)
      [] self.token.type = TEXT ->
            Finish(self, Throw(ErrText))
      [] self.token.type = LINE ->
            IF ~is_space(c)
            THEN returnFlushed(self)
            ELSE Continue(incrementCounters(self))
      [] OTHER ->
            Finish(self, Throw(ErrTokenType))

\* examine with "x" turning a fractional number into a hexadecimal number.
examine_FractionToHex(self, c) ==
    IF /\ self.token # null
       /\ self.token.type = FRACTIONAL_NUMBER
       /\ c = SMALL_LETTER_X
    THEN Continue(incrementCounters(appendIfBuffered(
            [self EXCEPT !.token.type = HEX_NUMBER], c)))
    ELSE IF self.token = null THEN startToken(self, c)
    ELSE continueToken(self, c)

\* examine with a LINE token continued by line breaks as well as by spaces.
examine_LineEatsBreaks(self, c) ==
    IF self.token # null /\ self.token.type = LINE /\ is_linebreak(c)
    THEN Continue(incrementCounters(self))
    ELSE IF self.token = null THEN startToken(self, c)
    ELSE continueToken(self, c)

\* Body of the inner loop, for the character c at this.sourceOffset.
examine(self, c) ==
    IF self.token = null THEN startToken(self, c) ELSE continueToken(self, c)

\* dropChunk resetting the total offset along with the chunk-local offset.
dropChunk_ResetTotal(self) ==
    LET buffered ==
            IF self.tokenValueOffset # -1
            THEN [self EXCEPT
                    !.token.value = Str(substring(sourceValue(self),
                        self.tokenValueOffset, Len(sourceValue(self)))),
                    !.tokenValueOffset = -1]
            ELSE self
    IN  [buffered EXCEPT !.source = Tail(@), !.sourceOffset = 0,
                         !.tokenOffset = 0]

\* dropChunk copying the unfinished value but leaving tokenValueOffset set.
dropChunk_KeepSlice(self) ==
    LET buffered ==
            IF self.tokenValueOffset # -1
            THEN [self EXCEPT
                    !.token.value = Str(substring(sourceValue(self),
                        self.tokenValueOffset, Len(sourceValue(self))))]
            ELSE self
    IN  [buffered EXCEPT !.source = Tail(@), !.sourceOffset = 0]

\* dropChunk with the copy of the unfinished value forgotten.
dropChunk_NoCopy(self) ==
    [self EXCEPT !.source = Tail(@), !.sourceOffset = 0,
                 !.tokenValueOffset = -1]

\* After the inner loop: the head chunk is used up. Buffer a value that lives
\* in it, then throw the chunk away and reset the chunk-local offset.
dropChunk(self) ==
    LET buffered ==
            IF self.tokenValueOffset # -1
            THEN [self EXCEPT
                    !.token.value = Str(substring(sourceValue(self),
                        self.tokenValueOffset, Len(sourceValue(self)))),
                    !.tokenValueOffset = -1]
            ELSE self
    IN  [buffered EXCEPT !.source = Tail(@), !.sourceOffset = 0]

\* endOfSource waiting for more source while a token is in progress and the
\* source has not ended.
endOfSource_Wait(self, source_ended) ==
    IF self.token # null
    THEN IF source_ended THEN returnFlushed(self) ELSE Continue(self)
    ELSE Finish(self, ReturnNull)

\* endOfSource counting the end of the source as a character when it
\* returns null.
endOfSource_Advance(self, source_ended) ==
    IF source_ended /\ self.token # null
    THEN returnFlushed(self)
    ELSE Finish([self EXCEPT !.tokenOffset = @ + 1], ReturnNull)

\* endOfSource with the test of source_ended forgotten.
endOfSource_AlwaysFlush(self, source_ended) ==
    IF self.token # null
    THEN LET f == flushToken(self) IN Finish(f.self, ReturnToken(f.token))
    ELSE Finish(self, ReturnNull)

\* After the outer loop: no more source.
endOfSource(self, source_ended) ==
    IF source_ended /\ self.token # null
    THEN returnFlushed(self)
    ELSE Finish(self, ReturnNull)

\* One step of next() from wherever the loops stand.
step(self, source_ended) ==
    IF self.source = <<>>
    THEN endOfSource(self, source_ended)
    ELSE IF charCodeAt(sourceValue(self), self.sourceOffset) # NaN
    THEN examine(self, charCodeAt(sourceValue(self), self.sourceOffset))
    ELSE Continue(dropChunk(self))

\* --------------------------------------------------------- state
VARIABLES
    source,            \* queued source chunks, head first (source .. sourceTail)
    sourceOffset,      \* offset into the head chunk where we are reading
    tokenOffset,       \* current source location: offset,
    tokenLine,         \*   line,
    tokenColumn,       \*   column
    token,             \* the token currently being read, or null
    tokenValueOffset,  \* offset into the head chunk where the value begins, or -1
    pc,                \* "idle" between calls, "next" inside a call of next()
    source_ended,      \* the argument of the call of next() in progress
    result,            \* what the last call of next() returned or threw
    entry,             \* when next() was last called: the lexer object then
                       \* (.lexer), what the call before it returned (.result)
                       \* and how many characters had been appended (.appended)
    input,             \* every character appended so far, in order
    output,            \* every token returned so far, in order
    session            \* "open", "ended" once next(true) was called,
                       \* "reopened" when source was appended after that

vars == <<source, sourceOffset, tokenOffset, tokenLine, tokenColumn, token,
          tokenValueOffset, pc, source_ended, result, entry, input, output,
          session>>

\* The lexer object
this ==
    [source |-> source, sourceOffset |-> sourceOffset,
     tokenOffset |-> tokenOffset, tokenLine |-> tokenLine,
     tokenColumn |-> tokenColumn, token |-> token,
     tokenValueOffset |-> tokenValueOffset]

\* Lexer(): the freshly created object
Lexer ==
    [source |-> <<>>, sourceOffset |-> 0, tokenOffset |-> 0, tokenLine |-> 0,
     tokenColumn |-> 0, token |-> null, tokenValueOffset |-> -1]

Assign(self) ==
    /\ source' = self.source
    /\ sourceOffset' = self.sourceOffset
    /\ tokenOffset' = self.tokenOffset
    /\ tokenLine' = self.tokenLine
    /\ tokenColumn' = self.tokenColumn
    /\ token' = self.token
    /\ tokenValueOffset' = self.tokenValueOffset

\* Characters the sessions are built from:
\*   LINE FEED, CARRIAGE RETURN, SPACE, "'", "(", ".", "0", "8", "\", "a", "x"
Alphabet == {10, 13, 32, 39, 40, 46, 48, 56, 92, 97, 120}

\* The chunks of exactly k characters over the set A
Chunks(A, k) == [1..k -> A]

Init ==
    /\ source = Lexer.source
    /\ sourceOffset = Lexer.sourceOffset
    /\ tokenOffset = Lexer.tokenOffset
    /\ tokenLine = Lexer.tokenLine
    /\ tokenColumn = Lexer.tokenColumn
    /\ token = Lexer.token
    /\ tokenValueOffset = Lexer.tokenValueOffset
    /\ pc = "idle"
    /\ source_ended = FALSE
    /\ result = NoResult
    /\ entry = [lexer |-> Lexer, result |-> NoResult, appended |-> 0]
    /\ input = <<>>
    /\ output = <<>>
    /\ session = "open"

\* appendSource linking the new chunk in front of the queue.
AppendSource_Front(chunk) ==
    /\ pc = "idle"
    /\ source' = <<chunk>> \o source
    /\ input' = input \o chunk
    /\ session' = IF session = "open" THEN "open" ELSE "reopened"
    /\ UNCHANGED <<sourceOffset, tokenOffset, tokenLine, tokenColumn, token,
                   tokenValueOffset, pc, source_ended, result, entry, output>>

\* L.appendSource(chunk)
AppendSource(chunk) ==
    /\ pc = "idle"
    /\ source' = Append(source, chunk)
    /\ input' = input \o chunk
    /\ session' = IF session = "open" THEN "open" ELSE "reopened"
    /\ UNCHANGED <<sourceOffset, tokenOffset, tokenLine, tokenColumn, token,
                   tokenValueOffset, pc, source_ended, result, entry, output>>

\* L.next(ended): the call is entered
CallNext(ended) ==
    /\ pc = "idle"
    /\ pc' = "next"
    /\ source_ended' = ended
    /\ entry' = [lexer |-> this, result |-> result, appended |-> Len(input)]
    /\ result' = NoResult
    /\ session' = IF ended /\ session = "open" THEN "ended" ELSE session
    /\ UNCHANGED <<source, sourceOffset, tokenOffset, tokenLine, tokenColumn,
                   token, tokenValueOffset, input, output>>

\* The effect of one step of next() on the variables
Do(s) ==
    /\ Assign(s.self)
    /\ result' = s.result
    /\ pc' = IF s.result.kind = "none" THEN "next" ELSE "idle"
    /\ output' = IF s.result.kind = "token"
                 THEN Append(output, s.result.token) ELSE output
    /\ UNCHANGED <<source_ended, entry, input, session>>

\* Inner loop: the character at sourceOffset is examined
Examine ==
    /\ pc = "next"
    /\ source # <<>>
    /\ charCodeAt(Head(source), sourceOffset) # NaN
    /\ Do(step(this, source_ended))

\* The head chunk is exhausted: it is dropped
DropChunk ==
    /\ pc = "next"
    /\ source # <<>>
    /\ charCodeAt(Head(source), sourceOffset) = NaN
    /\ Do(step(this, source_ended))

\* No more source: next() returns
EndOfSource ==
    /\ pc = "next"
    /\ source = <<>>
    /\ Do(step(this, source_ended))

Next ==
    \/ \E k \in 1..(MaxInput - Len(input)) :
          \E chunk \in Chunks(Alphabet, k) : AppendSource(chunk)
    \/ \E ended \in BOOLEAN : CallNext(ended)
    \/ Examine
    \/ DropChunk
    \/ EndOfSource

Spec == Init /\ [][Next]_vars

\* --------------------------------------------------------- whole calls
\* A complete call of next(): steps until it returns or throws.
RECURSIVE next(_, _)
next(self, ended) ==
    LET s == step(self, ended)
    IN  IF s.result.kind = "none" THEN next(s.self, ended) ELSE s

\* read_tokens(L, true): call next(true) until it returns null or throws.
RECURSIVE read_tokens(_, _)
read_tokens(self, read) ==
    LET r == next(self, TRUE)
    IN  IF r.result.kind = "token"
        THEN read_tokens(r.self, Append(read, r.result.token))
        ELSE [output |-> read, result |-> r.result]

\* The outcome of lexing the string s appended as one single chunk.
OneChunk(s) ==
    read_tokens([Lexer EXCEPT !.source = IF s = <<>> THEN <<>> ELSE <<s>>], <<>>)

\* --------------------------------------------------------- claims
\* A session is complete when the final pass (next(true) after the last
\* appendSource) has returned null or thrown.
Complete ==
    /\ pc = "idle"
    /\ session = "ended"
    /\ source_ended
    /\ result.kind \in {"null", "error"}

\* C1: chunk-boundary transparency. A complete session over any chunking of
\* the input has the same outcome (tokens with type, value, offset, line and
\* column, and the same final null or error) as the input in one chunk.
C1_ChunkTransparency ==
    Complete => [output |-> output, result |-> result] = OneChunk(input)

\* The kinds of token whose value is captured source text and which a
\* following character can terminate.
Family == {SYMBOL, DECIMAL_NUMBER, HEX_NUMBER, FRACTIONAL_NUMBER}

\* All queued chunks of q, concatenated.
RECURSIVE Flatten(_)
Flatten(q) == IF q = <<>> THEN <<>> ELSE Head(q) \o Flatten(Tail(q))

\* The continuation rules for one token as the specification's table gives
\* them: a token of kind type whose text so far is text, followed by rest.
\* "terminated" when a character of rest ends it, "open" when rest runs out
\* first, "error" on a malformed hexadecimal prefix.
RECURSIVE Scan(_, _, _)
Scan(type, text, rest) ==
    IF rest = <<>> THEN [state |-> "open", type |-> type, text |-> text]
    ELSE LET c == Head(rest)
             more(t) == Scan(t, Append(text, c), Tail(rest))
             stop(st) == [state |-> st, type |-> type, text |-> text]
         IN  CASE type = SYMBOL ->
                    IF is_symbol_character(c) THEN more(SYMBOL)
                    ELSE stop("terminated")
               [] type = DECIMAL_NUMBER ->
                    IF c = SMALL_LETTER_X
                    THEN IF text = <<DIGIT_ZERO>> THEN more(HEX_NUMBER)
                         ELSE stop("error")
                    ELSE IF c = UC_FULL_STOP THEN more(FRACTIONAL_NUMBER)
                    ELSE IF is_decdigit(c) THEN more(DECIMAL_NUMBER)
                    ELSE stop("terminated")
               [] type = HEX_NUMBER ->
                    IF is_hexdigit(c) THEN more(HEX_NUMBER)
                    ELSE stop("terminated")
               [] type = FRACTIONAL_NUMBER ->
                    IF c \in {UC_FULL_STOP, PLUS_SIGN, CAPITAL_LETTER_E,
                              SMALL_LETTER_E} \/ is_decdigit(c)
                    THEN more(FRACTIONAL_NUMBER)
                    ELSE stop("terminated")
               [] OTHER -> stop("error")

\* The call of next() that just returned was entered after a next() that
\* returned null with a Symbol or number token in progress (so its text was
\* buffered), and the input queued at entry continues that token by at least
\* one character and then terminates it.
LateCompletionCase ==
    /\ pc = "idle"
    /\ result.kind # "none"
    /\ entry.result.kind = "null"
    /\ entry.lexer.token.type \in Family
    /\ entry.lexer.source # <<>>
    /\ LET t == entry.lexer.token
           s == Scan(t.type, t.value.text, Flatten(entry.lexer.source))
       IN  s.state = "terminated" /\ Len(s.text) > Len(t.value.text)

\* C2: late completion of a split token. In that case the call returns one
\* token whose value is the concatenation of the parts from all the chunks it
\* spans and whose offset, line and column are those of its first character.
C2_LateCompletion ==
    LateCompletionCase =>
        LET t == entry.lexer.token
            s == Scan(t.type, t.value.text, Flatten(entry.lexer.source))
        IN  result = ReturnToken(
                [t EXCEPT !.type = s.type, !.value = Str(s.text)])

\* A call of next() has returned or thrown and nothing was appended since.
Returned == pc = "idle" /\ result.kind # "none" /\ Len(input) = entry.appended

\* The number of characters queued and not yet consumed in the lexer object.
Queued(self) == Len(Flatten(self.source)) - self.sourceOffset

\* C3 as claimed: a call of next(false) that returns null leaves the chunk
\* queue and the scan position (chunk-local offset, total offset, line,
\* column) as they were when it was called.
C3_NullConsumesNothing ==
    (Returned /\ result.kind = "null" /\ ~source_ended) =>
        /\ source = entry.lexer.source
        /\ sourceOffset = entry.lexer.sourceOffset
        /\ tokenOffset = entry.lexer.tokenOffset
        /\ tokenLine = entry.lexer.tokenLine
        /\ tokenColumn = entry.lexer.tokenColumn

\* C3 as amended: a call of next(false) that returns null has consumed all
\* that was queued (the queue is empty, the chunk-local offset 0, the total
\* offset advanced by the number of characters that were queued), and what it
\* read of an unfinished Symbol, number or Text token is kept, buffered, as
\* the value of the token in progress.
C3_NullDrainsAndRetains ==
    (Returned /\ result.kind = "null" /\ ~source_ended) =>
        /\ source = <<>>
        /\ sourceOffset = 0
        /\ tokenOffset = entry.lexer.tokenOffset + Queued(entry.lexer)
        /\ tokenOffset = Len(input)
        /\ tokenValueOffset = -1
        /\ token.type \in Family \cup {TEXT} =>
              token.value = Str(SubSeq(input, token.offset + 1, tokenOffset))

\* A next(false) returned null with two chunks consumed and a token that
\* spans both of them still in progress.
C3_Witness ==
    /\ Returned /\ result.kind = "null" /\ ~source_ended
    /\ Len(entry.lexer.source) = 2
    /\ token.type \in Family
    /\ Len(token.value.text) = Queued(entry.lexer)

\* C4: position monotonicity. Each token returned has an offset strictly
\* greater than that of the token returned before it.
C4_PositionMonotonic ==
    \A i \in 1..(Len(output) - 1) : output[i].offset < output[i + 1].offset

\* Three tokens were returned, one after the other: a Line, a Symbol that the
\* next character terminated, and the single-character token that did so.
C4_Witness ==
    /\ Len(output) = 3
    /\ output[1].type = LINE
    /\ output[2].type = SYMBOL
    /\ output[3].type = LEFT_PAREN

\* --------------------------------------------------------- steps of next()
\* The inner loop is about to examine a character, which is Current.
Current == IF source = <<>> THEN NaN ELSE charCodeAt(Head(source), sourceOffset)
Examining == pc = "next" /\ Current # NaN

\* The text read so far of the token in progress, in either capture mode.
TextSoFar ==
    IF tokenValueOffset # -1
    THEN substring(Head(source), tokenValueOffset, sourceOffset)
    ELSE token.value.text

\* The step leaves the queue and the scan position alone.
PositionUnchanged ==
    UNCHANGED <<source, sourceOffset, tokenOffset, tokenLine, tokenColumn>>

\* A character that begins a token wherever it is examined.
StartsToken(c) ==
    \/ c \in DOMAIN SINGLE_TOKENS
    \/ c = LINE_FEED
    \/ c = APOSTROPHE
    \/ is_decdigit(c)
    \/ is_symbol_character(c)

\* C5: terminator non-consumption. A step in which a character terminates a
\* Symbol or number token returns the token and advances nothing for that
\* character; and when the character after a returned Symbol or number token
\* begins a token, the token returned next has as offset the previous offset
\* plus the length of the previous value: the terminator is its first
\* character.
C5_TerminatorNotConsumed ==
    /\ [][(Examining /\ token.type \in Family /\ result'.kind = "token") =>
            /\ PositionUnchanged
            /\ token' = null
            /\ pc' = "idle"
            /\ result'.token.type = token.type
            /\ result'.token.offset = token.offset
            /\ result'.token.value = Str(TextSoFar)]_vars
    /\ [](\A i \in 1..(Len(output) - 1) :
            LET end == output[i].offset + Len(output[i].value.text)
            IN  (/\ output[i].type \in Family
                 /\ end < Len(input)
                 /\ StartsToken(input[end + 1]))
                => output[i + 1].offset = end)

\* A hexadecimal number was terminated by a single-character token, and both
\* were returned.
C5_Witness ==
    /\ Len(output) = 2
    /\ output[1].type = HEX_NUMBER
    /\ output[2].type \in {LEFT_PAREN, FULL_STOP}
    /\ output[2].offset = 2

\* C6: end-of-input flush. When next() finds the queue empty it returns the
\* token in progress, finalized, exactly when source_ended is true and there
\* is one; otherwise it returns null and the token in progress (or none) and
\* the scan position stay as they are. After a flush no token is in progress.
C6_EndOfInputFlush ==
    [][(pc = "next" /\ source = <<>>) =>
        /\ pc' = "idle"
        /\ PositionUnchanged
        /\ tokenValueOffset' = tokenValueOffset
        /\ IF source_ended /\ token # null
           THEN /\ result'.kind = "token"
                /\ token' = null
                /\ result'.token =
                     [token EXCEPT !.value =
                        IF token.type = LINE
                        THEN Num(tokenOffset - token.offset - 1)
                        ELSE token.value]
           ELSE /\ result' = ReturnNull
                /\ token' = token]_vars

\* next(true) has flushed at the end of the input a Symbol or number token
\* that spans two chunks.
C6_Witness ==
    /\ Returned /\ source_ended /\ result.kind = "token"
    /\ source = <<>> /\ token = null
    /\ entry.lexer.token.type \in Family
    /\ result.token.type \in Family
    /\ Len(result.token.value.text) > Len(entry.lexer.token.value.text)
    /\ tokenOffset = Len(input)

\* C7: appendSource only enqueues. A step that appends a chunk puts it at
\* the tail of the queue and changes nothing else of the lexer: not the token
\* in progress, the capture mode, the chunk-local offset or the counters; it
\* returns no token and throws nothing.
C7_AppendOnlyEnqueues ==
    [][input' # input =>
        /\ pc = "idle" /\ pc' = "idle"
        /\ Len(input') > Len(input)
        /\ source' = Append(source,
                        SubSeq(input', Len(input) + 1, Len(input')))
        /\ UNCHANGED <<sourceOffset, tokenOffset, tokenLine, tokenColumn,
                       token, tokenValueOffset, result, output>>]_vars

\* A chunk was appended behind a chunk that is partly consumed, after a
\* token was returned.
C7_Witness ==
    /\ pc = "idle"
    /\ Len(source) = 2
    /\ sourceOffset > 0
    /\ Len(output) = 1
    /\ Len(input) > entry.appended

\* C8: hex-prefix rule, in both capture modes. When "x" is examined while a
\* DecimalNumber is in progress, the token becomes a HexNumber and the "x" is
\* consumed if the text so far is the single digit "0"; otherwise the
\* malformed-hex-prefix error is raised.
C8_HexPrefixRule ==
    [][(Examining /\ token.type = DECIMAL_NUMBER /\ Current = SMALL_LETTER_X) =>
        IF TextSoFar = <<DIGIT_ZERO>>
        THEN /\ result'.kind = "none"
             /\ token'.type = HEX_NUMBER
             /\ tokenOffset' = tokenOffset + 1
             /\ sourceOffset' = sourceOffset + 1
        ELSE /\ result' = Throw(ErrUnexpectedX)
             /\ PositionUnchanged]_vars

\* The number of characters among the first n of the input that satisfy Is.
CountBefore(Is(_), n) == Cardinality({k \in 1..n : Is(input[k])})

IsLineFeed(c) == c = LINE_FEED

\* Line and column tracking, where Breaks(c) tells the characters that count
\* as breaking a line. A step that consumes a character either increments the
\* line and leaves the column 0 for the following character, when the
\* character breaks a line, or leaves the line and increments the column; no
\* other step touches line or column.
LineColumnStep(Breaks(_)) ==
    /\ tokenOffset' # tokenOffset =>
          /\ Examining
          /\ tokenOffset' = tokenOffset + 1
          /\ IF Breaks(Current)
             THEN tokenLine' = tokenLine + 1 /\ tokenColumn' = 0
             ELSE tokenLine' = tokenLine /\ tokenColumn' = tokenColumn + 1
    /\ tokenOffset' = tokenOffset => UNCHANGED <<tokenLine, tokenColumn>>

\* The line of every returned token is the number of line-breaking
\* characters before its first character.
LinesCounted(Breaks(_)) ==
    \A i \in 1..Len(output) :
        output[i].line = CountBefore(Breaks, output[i].offset)

\* C9 as claimed: line and column tracking where the line-breaking
\* characters are all those is_linebreak accepts.
C9_LinebreakTracking ==
    /\ [][LineColumnStep(is_linebreak)]_vars
    /\ []LinesCounted(is_linebreak)

\* C9 as amended: the line counter follows LINE FEED alone; the other
\* characters is_linebreak accepts are consumed like any other character.
C9_LineFeedTracking ==
    /\ [][LineColumnStep(IsLineFeed)]_vars
    /\ []LinesCounted(IsLineFeed)

\* A Symbol was returned at line 1, column 0, of an input that begins with
\* CARRIAGE RETURN, LINE FEED.
C9_Witness ==
    /\ Len(input) = 3 /\ input[1] = 13 /\ input[2] = LINE_FEED
    /\ Len(output) = 3
    /\ output[3].type = SYMBOL
    /\ output[3].line = 1
    /\ output[3].column = 0

\* A character that fits no starter classification.
Unexpected(c) ==
    /\ c \notin DOMAIN SINGLE_TOKENS
    /\ c # LINE_FEED
    /\ c # APOSTROPHE
    /\ ~is_decdigit(c)
    /\ ~is_symbol_character(c)
    /\ ~is_whitespace(c)

\* The unexpected-character error, for the token kinds in Terminated. A step
\* of next() raises it exactly when it examines an unexpected character with
\* no token in progress, and then consumes nothing; an unexpected character
\* examined while a token of a kind in Terminated is in progress ends that
\* token, which is returned with the character not consumed.
UnexpectedStep(Terminated) ==
    pc = "next" =>
        /\ result' = Throw(ErrUnexpectedCharacter) <=>
                (Examining /\ token = null /\ Unexpected(Current))
        /\ result' = Throw(ErrUnexpectedCharacter) =>
                PositionUnchanged /\
                UNCHANGED <<token, tokenValueOffset, output>>
        /\ (Examining /\ token.type \in Terminated /\ Unexpected(Current))
                => /\ result'.kind = "token"
                   /\ result'.token.type = token.type
                   /\ result'.token.offset = token.offset
                   /\ token' = null
                   /\ PositionUnchanged

\* The call that follows the return of a token that an unexpected character
\* terminated raises the error at once and changes nothing.
UnexpectedNext ==
    LET before == entry.lexer
        c == IF before.source = <<>> THEN NaN
             ELSE charCodeAt(Head(before.source), before.sourceOffset)
    IN  (/\ Returned
         /\ entry.result.kind = "token"
         /\ before.token = null
         /\ c # NaN /\ Unexpected(c))
        => result = Throw(ErrUnexpectedCharacter) /\ this = before

\* Every kind of token that can be in progress
AllKinds == Family \cup {LINE, TEXT}

\* C10 as claimed: the unexpected-character error is raised exactly on an
\* unexpected character examined with no token in progress; whatever token
\* is in progress, an unexpected character terminates it, it is returned,
\* and the error comes with the following call.
C10_UnexpectedCharacter ==
    /\ [][UnexpectedStep(AllKinds)]_vars
    /\ []UnexpectedNext

\* C10 as amended: so for every token in progress but a Text token, whose
\* body raises the unimplemented-feature error on any character.
C10_UnexpectedCharacterButText ==
    /\ [][UnexpectedStep(AllKinds \ {TEXT})]_vars
    /\ []UnexpectedNext

\* A Symbol was returned, terminated by "\", and the call after it raised
\* the unexpected-character error with nothing consumed.
C10_Witness ==
    /\ Returned
    /\ result = Throw(ErrUnexpectedCharacter)
    /\ entry.result.kind = "token"
    /\ entry.result.token.type = SYMBOL
    /\ Current = REVERSE_SOLIDUS
    /\ tokenOffset = 1

\* --------------------------------------------------------- Line tokens
\* The character examined is whitespace but breaks no line.
BlankExamined ==
    Examining /\ is_whitespace(Current) /\ ~is_linebreak(Current)

\* C11: implicit leading line only at the start of the input. A step that
\* examines, with no token in progress, a whitespace character that is not a
\* line break consumes it; it begins a Line token when the character is the
\* very first of the whole input (total offset 0) and begins no token at any
\* other total offset, the first position of a later chunk included.
C11_ImplicitLineOnlyAtStart ==
    [][(BlankExamined /\ token = null) =>
        /\ result'.kind = "none"
        /\ sourceOffset' = sourceOffset + 1
        /\ tokenOffset' = tokenOffset + 1
        /\ token' = IF tokenOffset = 0 THEN makeToken(this, LINE) ELSE null]_vars

\* --------------------------------------------------------- sessions of lines
\* Longer inputs of one shape: up to MaxBlank characters that are LINE FEED or
\* SPACE, and then either the symbol "abc" or CARRIAGE RETURN, SPACE, "a". A
\* session appends such a text, or a part of it from its beginning, in chunks
\* of any lengths.
MaxBlank == 4
Blank == {LINE_FEED, 32}
Word == <<97, 98, 99>>
Words == {Word, <<13, 32, 97>>}
LineTexts ==
    {blank \o word : blank \in UNION {Chunks(Blank, n) : n \in 0..MaxBlank},
                     word \in Words}

IsPrefix(s, t) == Len(s) <= Len(t) /\ s = SubSeq(t, 1, Len(s))

LineNext ==
    \/ \E t \in {u \in LineTexts : IsPrefix(input, u)} :
          \E k \in 1..(Len(t) - Len(input)) :
              AppendSource(SubSeq(t, Len(input) + 1, Len(input) + k))
    \/ \E ended \in BOOLEAN : CallNext(ended)
    \/ Examine
    \/ DropChunk
    \/ EndOfSource

LineSpec == Init /\ [][LineNext]_vars

\* A token that began at a line-break character of the input.
StartedByBreak(t) == t.type = LINE /\ is_linebreak(input[t.offset + 1])

\* The number of space characters consumed after the first character of t.
SpacesAfter(t) ==
    Cardinality({k \in (t.offset + 2)..tokenOffset : is_space(input[k])})

\* The length of the run of space characters of the input from position k on.
RECURSIVE SpaceRun(_)
SpaceRun(k) ==
    IF k <= Len(input) /\ is_space(input[k]) THEN 1 + SpaceRun(k + 1) ELSE 0

\* The Line token in progress, returned with n as its value.
LineReturned(n) ==
    /\ result' = ReturnToken([token EXCEPT !.value = Num(n)])
    /\ token' = null
    /\ pc' = "idle"
    /\ PositionUnchanged

\* C12: Line value. While a Line token that a line break started is in
\* progress, a space character examined is consumed and continues it; any
\* other character examined, and the end of the input (next(true) with the
\* queue empty), ends it with nothing consumed, and the value it is returned
\* with is the number of space characters consumed after the line break.
\* Over a whole session: the value of each such Line token is the length of
\* the run of spaces that follows its line break in the input, however the
\* chunks divide it.
C12_LineValue ==
    /\ [][(Examining /\ token # null /\ StartedByBreak(token)) =>
            IF is_space(Current)
            THEN /\ result'.kind = "none"
                 /\ token' = token
                 /\ sourceOffset' = sourceOffset + 1
                 /\ tokenOffset' = tokenOffset + 1
            ELSE LineReturned(SpacesAfter(token))]_vars
    /\ [][(/\ pc = "next" /\ source = <<>> /\ source_ended
           /\ token # null /\ StartedByBreak(token)) =>
            LineReturned(SpacesAfter(token))]_vars
    /\ [](session # "reopened" =>
            \A i \in 1..Len(output) :
                StartedByBreak(output[i]) =>
                    output[i].value = Num(SpaceRun(output[i].offset + 2)))

\* The input is a line break, three spaces and "abc", appended in three
\* chunks or more with the spaces in different chunks; the tokens returned
\* are a Line with value 3 and the Symbol "abc".
C12_Witness ==
    /\ Returned /\ source_ended
    /\ input = <<LINE_FEED, 32, 32, 32>> \o Word
    /\ entry.lexer.source = << <<32, 32>> \o Word >>
    /\ entry.lexer.sourceOffset = 2
    /\ Len(output) = 2
    /\ output[1] = [type |-> LINE, value |-> Num(3), offset |-> 0,
                    line |-> 0, column |-> 0]
    /\ output[2].type = SYMBOL
    /\ output[2].value = Str(Word)
    /\ output[2].offset = 4

\* A Line token that began at total offset 0 with a whitespace character that
\* is no line break: the implicit Line of a first line that has leading space.
VirtualLine(t) == t.type = LINE /\ t.offset = 0 /\ is_space(input[1])

\* The number of space characters among those consumed so far.
SpacesConsumed == Cardinality({k \in 1..tokenOffset : is_space(input[k])})

\* C13: virtual leading Line undercount. The implicit Line token of a first
\* line with leading space is returned with the number of space characters
\* consumed less one as its value; over a whole session its value is one less
\* than the number of spaces the input begins with.
C13_VirtualLineUndercount ==
    /\ [][(pc = "next" /\ token # null /\ VirtualLine(token)
           /\ result'.kind = "token") =>
            /\ result'.token.value = Num(SpacesConsumed - 1)
            /\ \A k \in 1..tokenOffset : is_space(input[k])
            /\ PositionUnchanged]_vars
    /\ [](session # "reopened" =>
            \A i \in 1..Len(output) :
                VirtualLine(output[i]) =>
                    output[i].value = Num(SpaceRun(1) - 1))

\* The input begins with four spaces divided over chunks, the call before
\* the last returned null with the implicit Line in progress, and the Line
\* was then returned with value 3.
C13_Witness ==
    /\ Returned /\ result.kind = "token"
    /\ SpaceRun(1) = 4
    /\ entry.result.kind = "null"
    /\ entry.lexer.token.type = LINE
    /\ entry.lexer.tokenOffset \in 1..3
    /\ output = <<[type |-> LINE, value |-> Num(3), offset |-> 0,
                   line |-> 0, column |-> 0]>>

\* --------------------------------------------------------- sessions of punctuation
\* Short inputs over every single-character token, "," (44), SPACE and "a".
MaxTokenInput == 2
TokenAlphabet == DOMAIN SINGLE_TOKENS \cup {44, 32, 97}

TokenNext ==
    \/ \E k \in 1..(MaxTokenInput - Len(input)) :
          \E chunk \in Chunks(TokenAlphabet, k) : AppendSource(chunk)
    \/ \E ended \in BOOLEAN : CallNext(ended)
    \/ Examine
    \/ DropChunk
    \/ EndOfSource

TokenSpec == Init /\ [][TokenNext]_vars

\* A step that examines one of the characters Singles with no token in
\* progress returns, in that same call, a token without value whose kind is
\* the one the character maps to and whose offset, line and column are the
\* position of the character; the chunk-local offset, the total offset and
\* the column advance by one; no token is in progress afterwards and the
\* call has ended, so that no later character is examined in it.
SingleStep(Singles) ==
    (Examining /\ token = null /\ Current \in Singles) =>
        /\ result'.kind = "token"
        /\ result'.token.value = Undefined
        /\ result'.token.offset = tokenOffset
        /\ result'.token.line = tokenLine
        /\ result'.token.column = tokenColumn
        /\ Current \in DOMAIN SINGLE_TOKENS =>
              result'.token.type = SINGLE_TOKENS[Current]
        /\ sourceOffset' = sourceOffset + 1
        /\ tokenOffset' = tokenOffset + 1
        /\ tokenColumn' = tokenColumn + 1
        /\ UNCHANGED <<source, tokenLine, token, tokenValueOffset>>
        /\ pc' = "idle"

Captured == Family \cup {TEXT}

\* The head chunk is used up inside a call of next().
ChunkExhausted == pc = "next" /\ source # <<>> /\ Current = NaN

\* C15: one-way capture mode. A token with captured text begins in
\* deferred-slice mode (tokenValueOffset is the offset of its first character
\* in the head chunk, its value not yet set). While it stays in progress the
\* mode changes only from deferred-slice to buffered (tokenValueOffset -1, the
\* text read so far in token.value), and that exactly in the step that finds
\* its chunk exhausted; a buffered token never becomes deferred again, so the
\* change happens at most once in the life of a token.
C15_OneWayCapture ==
    /\ [][(token = null /\ token' # null /\ token'.type \in Captured) =>
            /\ tokenValueOffset' = sourceOffset
            /\ token'.value = Undefined]_vars
    /\ [][(token # null /\ token.type \in Captured /\ token' # null) =>
            /\ token'.offset = token.offset
            /\ tokenValueOffset = -1 => tokenValueOffset' = -1
            /\ (tokenValueOffset # -1 /\ tokenValueOffset' # -1) =>
                  tokenValueOffset' = tokenValueOffset /\ token'.value = Undefined
            /\ (tokenValueOffset # -1 /\ tokenValueOffset' = -1) <=>
                  (tokenValueOffset # -1 /\ ChunkExhausted)
            /\ (tokenValueOffset # -1 /\ ChunkExhausted) =>
                  token'.value = Str(substring(Head(source), tokenValueOffset,
                                               Len(Head(source))))]_vars
    /\ [](token # null /\ token.type \in Captured =>
            (tokenValueOffset = -1 <=> token.value # Undefined))

\* A Symbol or number token that was already buffered, with one character
\* read, when next() was called, has since been continued through two more
\* chunks and is still buffered.
C15_Witness ==
    /\ token # null /\ token.type \in Family
    /\ tokenValueOffset = -1
    /\ Len(token.value.text) = 3
    /\ entry.lexer.token = [token EXCEPT !.value = Str(<<input[1]>>),
                                         !.type = entry.lexer.token.type]
    /\ entry.lexer.tokenValueOffset = -1
    /\ Len(entry.lexer.source) = 2

\* --------------------------------------------------------- total offset
\* The step consumes the character examined.
Consumes == Examining /\ sourceOffset' = sourceOffset + 1 /\ source' = source

\* C16: the total offset counts the characters consumed. In every state it
\* is the summed length of the chunks dropped from the queue (all that was
\* appended less what is still queued) plus the chunk-local offset into the
\* head chunk. A step increases it by exactly one when it consumes a
\* character and leaves it alone otherwise; the step that drops an exhausted
\* chunk resets the chunk-local offset to 0 and not the total offset.
C16_TotalOffsetCounts ==
    /\ [](tokenOffset = (Len(input) - Len(Flatten(source))) + sourceOffset)
    /\ [][/\ tokenOffset' = IF Consumes THEN tokenOffset + 1 ELSE tokenOffset
          /\ sourceOffset' # sourceOffset => (Consumes \/ ChunkExhausted)
          /\ ChunkExhausted =>
                /\ source' = Tail(source)
                /\ sourceOffset' = 0
                /\ tokenOffset' = tokenOffset]_vars

\* Two chunks were dropped and the one character of the third consumed: the
\* chunk-local offset is 1 and the total offset 3.
C16_Witness ==
    /\ Len(input) = 3
    /\ Len(source) = 1 /\ Len(Head(source)) = 1
    /\ sourceOffset = 1
    /\ tokenOffset = 3

\* --------------------------------------------------------- token kinds
\* The kind of the token that character c begins when no token is in
\* progress (whitespace begins the implicit Line token, or nothing).
KindBegun(c) ==
    IF c \in DOMAIN SINGLE_TOKENS THEN SINGLE_TOKENS[c]
    ELSE IF c = LINE_FEED THEN LINE
    ELSE IF c = APOSTROPHE THEN TEXT
    ELSE IF is_decdigit(c) THEN DECIMAL_NUMBER
    ELSE IF is_symbol_character(c) THEN SYMBOL
    ELSE LINE

\* The kinds a token that began as kind k may be returned as.
Successors(k) ==
    IF k = DECIMAL_NUMBER
    THEN {DECIMAL_NUMBER, FRACTIONAL_NUMBER, HEX_NUMBER}
    ELSE {k}

\* C17: token kind transitions. A token begins as the kind its first
\* character tells. The kind of a token in progress changes only in a step
\* that consumes "." with a DecimalNumber in progress, which becomes a
\* FractionalNumber (always, "." being no single-character token there), or
\* "x" with a DecimalNumber in progress whose text is the sole "0", which
\* becomes a HexNumber. A token is returned with the kind it then has, so the
\* type of every returned token is the kind it began as or one of these two
\* successors of DecimalNumber.
C17_KindTransitions ==
    /\ [][(token = null /\ token' # null) =>
            Examining /\ token'.type = KindBegun(Current)]_vars
    /\ [][(token # null /\ token' # null /\ token'.type # token.type) =>
            /\ Consumes
            /\ token.type = DECIMAL_NUMBER
            /\ \/ Current = UC_FULL_STOP /\ token'.type = FRACTIONAL_NUMBER
               \/ /\ Current = SMALL_LETTER_X
                  /\ TextSoFar = <<DIGIT_ZERO>>
                  /\ token'.type = HEX_NUMBER]_vars
    /\ [][(/\ Examining /\ token # null /\ token.type = DECIMAL_NUMBER
           /\ Current = UC_FULL_STOP) =>
            /\ Consumes
            /\ result'.kind = "none"
            /\ token' # null /\ token'.type = FRACTIONAL_NUMBER]_vars
    /\ [][(token # null /\ result'.kind = "token") =>
            result'.token.type = token.type]_vars
    /\ [](\A i \in 1..Len(output) :
            output[i].type \in Successors(KindBegun(input[output[i].offset + 1])))

\* "0.8", appended in two chunks or more, was read as one FractionalNumber
\* and returned at the end of the input.
C17_Witness ==
    /\ Returned /\ source_ended
    /\ Len(entry.lexer.source) >= 2
    /\ entry.lexer.token = null
    /\ output = <<[type |-> FRACTIONAL_NUMBER,
                   value |-> Str(<<DIGIT_ZERO, UC_FULL_STOP, 56>>),
                   offset |-> 0, line |-> 0, column |-> 0]>>

\* --------------------------------------------------------- token values
\* What the continuation rules make of the token that begins at position
\* k + 1 of the input.
Scanned(k) ==
    Scan(KindBegun(input[k + 1]), <<input[k + 1]>>,
         SubSeq(input, k + 2, Len(input)))

\* C18: value equals source text, in both capture modes. A Symbol or number
\* token is returned with the text read of it as value, be that text a slice
\* of the head chunk or the accumulator; so the value of every returned
\* Symbol or number token is not empty and is exactly the characters of the
\* input from the offset of the token on, and, in a session that was not
\* reopened after next(true), these run up to the character that terminates
\* the token or to the end of the input: no character is dropped or
\* duplicated where chunks meet.
C18_ValueIsSourceText ==
    /\ [][(token # null /\ token.type \in Family /\ result'.kind = "token") =>
            /\ TextSoFar = SubSeq(input, token.offset + 1, tokenOffset)
            /\ result'.token.value = Str(TextSoFar)]_vars
    /\ [](\A i \in 1..Len(output) :
            output[i].type \in Family =>
                LET t == output[i]
                    n == Len(t.value.text)
                IN  /\ t.value # Undefined
                    /\ n >= 1
                    /\ t.value.text = SubSeq(input, t.offset + 1, t.offset + n)
                    /\ session # "reopened" =>
                          /\ Scanned(t.offset).state \in {"terminated", "open"}
                          /\ Scanned(t.offset).text = t.value.text
                          /\ Scanned(t.offset).type = t.type)

\* A Symbol was buffered with one character read when next() was called,
\* was continued by the one character of the next chunk and terminated by
\* the first of the chunk after it, and was returned with both characters.
C18_Witness ==
    /\ Len(input) = 3
    /\ Returned /\ result.kind = "token"
    /\ result.token.type = SYMBOL
    /\ result.token.value = Str(SubSeq(input, 1, 2))
    /\ entry.lexer.tokenValueOffset = -1
    /\ entry.lexer.token.value = Str(<<input[1]>>)
    /\ Len(entry.lexer.source) = 2
    /\ Current = input[3]

\* --------------------------------------------------------- progress
\* Sessions over SPACE, "'", "(", "\" and "a", in which a call of next() that
\* was entered goes on running: JavaScript runs a call to completion, no
\* other code of the program is interleaved with it.
MaxProgressInput == 3
ProgressAlphabet == {32, APOSTROPHE, 40, REVERSE_SOLIDUS, 97}

ProgressNext ==
    \/ \E k \in 1..(MaxProgressInput - Len(input)) :
          \E chunk \in Chunks(ProgressAlphabet, k) : AppendSource(chunk)
    \/ \E ended \in BOOLEAN : CallNext(ended)
    \/ Examine
    \/ DropChunk
    \/ EndOfSource

ProgressSpec ==
    /\ Init /\ [][ProgressNext]_vars
    /\ WF_vars(Examine) /\ WF_vars(DropChunk) /\ WF_vars(EndOfSource)

\* What a call of next() has left to go through: the characters queued and
\* not consumed, and the chunks to drop.
Remaining == Queued(this) + Len(source)

\* C19: progress and termination. Every call of next() returns (a token,
\* null, or by throwing): each of its steps but the last uses up a character
\* or a chunk of what is queued, nothing is appended while it runs, it
\* consumes no more than was queued when it was called, and with the queue
\* empty it returns at once. With nothing more appended, calling next(true)
\* until it returns null or throws ends, having returned in the whole session
\* no more tokens than characters were appended; and once next(true) has
\* returned null, calling it again returns null and changes nothing.
C19_ProgressAndTermination ==
    /\ (pc = "next") ~> (pc = "idle")
    /\ [][pc = "next" =>
            /\ input' = input
            /\ pc' = "next" => Remaining' < Remaining
            /\ source = <<>> => pc' = "idle"]_vars
    /\ [](pc = "next" =>
            tokenOffset - entry.lexer.tokenOffset <= Queued(entry.lexer))
    /\ [](pc = "idle" =>
            LET r == read_tokens(this, <<>>)
            IN  /\ r.result.kind \in {"null", "error"}
                /\ Len(output) + Len(r.output) <= Len(input))
    /\ []((Returned /\ source_ended /\ result.kind = "null") =>
            next(this, TRUE) = Finish(this, ReturnNull))
    /\ []((/\ Returned /\ source_ended
           /\ entry.result.kind = "null"
           /\ entry.lexer.source = <<>>
           /\ entry.lexer.token = null) =>
            result = ReturnNull /\ this = entry.lexer)

\* Three characters were appended and next(true) has returned three tokens,
\* then null, and null again on the call after that.
C19_Witness ==
    /\ Returned /\ source_ended
    /\ session = "ended"
    /\ Len(input) = 3
    /\ Len(output) = 3
    /\ result = ReturnNull
    /\ entry.result.kind = "null"
    /\ entry.lexer.source = <<>>

\* --------------------------------------------------------- null again
\* C20: idempotent null. When next(false) has returned null and nothing was
\* appended since, next(false) called again returns null and leaves every
\* field of the lexer object as it was: the queue, the chunk-local and total
\* offsets, line and column, the token in progress with its accumulated
\* value, and the capture mode. The state being the same after the call as
\* before it, this goes for any number of such calls.
C20_IdempotentNull ==
    /\ []((Returned /\ ~source_ended /\ result.kind = "null") =>
            next(this, FALSE) = Finish(this, ReturnNull))
    /\ []((/\ Returned /\ ~source_ended
           /\ entry.result.kind = "null"
           /\ entry.lexer.source = <<>>) =>
            result = ReturnNull /\ this = entry.lexer)

\* next(false) returned null a second time running with a Symbol or number
\* token of two characters in progress, and the lexer object is what it was.
C20_Witness ==
    /\ Returned /\ ~source_ended
    /\ result = ReturnNull
    /\ entry.result.kind = "null"
    /\ entry.lexer.source = <<>>
    /\ token # null /\ token.type \in Family
    /\ Len(token.value.text) = 2
    /\ this = entry.lexer

\* --------------------------------------------------------- deferred slice
\* C21: the deferred slice never outlives a call. When next() has returned a
\* token or null, tokenValueOffset is -1. Whenever tokenValueOffset is not
\* -1, a Symbol, number or Text token is in progress whose value is not yet
\* set, the queue is not empty and its head is the chunk the token began in
\* (the offset of the token is the total offset of the head chunk's first
\* character plus tokenValueOffset), and 0 <= tokenValueOffset <=
\* chunk-local offset <= length of the head chunk; so the slice that a flush
\* takes is the text of the input from the offset of the token up to the
\* total offset.
C21_DeferredSliceWithinCall ==
    /\ (pc = "idle" /\ result.kind \in {"token", "null"}) =>
            tokenValueOffset = -1
    /\ tokenValueOffset # -1 =>
            /\ token # null
            /\ token.type \in Captured
            /\ token.value = Undefined
            /\ source # <<>>
            /\ 0 <= tokenValueOffset
            /\ tokenValueOffset <= sourceOffset
            /\ sourceOffset <= Len(Head(source))
            /\ token.offset = (tokenOffset - sourceOffset) + tokenValueOffset
            /\ substring(Head(source), tokenValueOffset, sourceOffset) =
                    SubSeq(input, token.offset + 1, tokenOffset)

\* A Symbol or number token began at the first character of the second chunk
\* and was terminated by the character after it, within one call: it was
\* returned with its value sliced from that chunk, and tokenValueOffset is -1
\* again.
C21_Witness ==
    /\ Len(input) = 3
    /\ Returned /\ result.kind = "token"
    /\ result.token.type \in Family
    /\ result.token.offset = 1
    /\ result.token.value = Str(<<input[2]>>)
    /\ entry.lexer.token = null
    /\ entry.lexer.tokenValueOffset = -1
    /\ Len(entry.lexer.source) = 2
    /\ sourceOffset = 1 /\ tokenOffset = 2
    /\ tokenValueOffset = -1

====
